---------------------------- MODULE Spec2Model ----------------------------
(***************************************************************************)
(* TLF packager: merge of ordered document fragments with one bookmark per *)
(* fragment, word-wrapped and paginated table of contents, link/bookmark   *)
(* rebasing and persistence of the final document.                         *)
(*                                                                         *)
(* Three scripts carry a copy of the engine:                               *)
(*   "TLF_Packager"  src/script/TLF_Packager.py                            *)
(*   "pack_pdfs"     src/script/pack_pdfs_with_toc.py                      *)
(*   "pack_rtfs"     src/script/pack_rtfs_with_toc.py                      *)
(*                                                                         *)
(* Representation of text.  fitz.get_text_length adds up the glyph widths  *)
(* of the Helvetica font and multiplies by the font size, so a word is     *)
(* represented by the sum of its glyph widths (1/1000 em) and lengths are  *)
(* integers in 1/1000 pt.  A title string is a sequence of tokens: 0 is a  *)
(* run of whitespace, n > 0 is a word of glyph width n.  A line built by   *)
(* the wrapper is the sequence of its words, joined by single spaces.      *)
(***************************************************************************)
EXTENDS Integers, Sequences, FiniteSets, TLC

VARIABLES
    \* one run of a script's main
    script,             \* which of the three scripts runs
    include_toc_title,  \* banner option (TLF_Packager always draws it)
    delete_converted,   \* delete_intermediate_pdfs / delete_converted_pdfs
    final_pdf,          \* the output path: "out", or "mid" when the caller's
                        \* name is the name of the intermediate document
    inputs,             \* the fragments main starts from
    entries,            \* the entries list of main / merge
    pc,                 \* position in main
    idx,                \* index of the running loop
    merged,             \* pages of the document merge builds
    toc,                \* bookmark list merge builds
    page_count,         \* TLF_Packager's page counter
    to_delete,          \* TLF_Packager's list of converted PDFs
    converted,          \* files whose converted PDF is on disk
    unreadable,         \* files whose conversion or opening failed
    fs,                 \* content of the paths "mid" and "out"
    base,               \* the document opened from the intermediate path
    paginated,          \* result of the paginator
    link_targets,       \* result of the renderer
    final,              \* the final document under construction
    raised_at,          \* step that raised, "none" if none did
    warnings,           \* the "[Warning] Couldn't delete ..." messages printed
    existing,           \* per RTF whose PDF was in the folder before the run:
                        \* what became of that PDF
    \* application of one pure function
    fn,         \* which pure function a function-level specification applies
    fn_args,    \* its arguments
    fn_ret,     \* its return value
    fn_pc       \* "call" before the application, "return" after, "idle"

runvars == <<script, include_toc_title, delete_converted, final_pdf, inputs,
             entries, pc, idx, merged, toc, page_count, to_delete, converted,
             unreadable, fs, base, paginated, link_targets, final, raised_at,
             warnings, existing>>
fnvars == <<fn, fn_args, fn_ret, fn_pc>>
vars == <<runvars, warnings,
                   fnvars>>

Scripts == {"TLF_Packager", "pack_pdfs", "pack_rtfs"}

-----------------------------------------------------------------------------
(* Bounds of the function-level specifications *)
MaxWords == 3
MaxEntries == 3
MaxRenderEntries == 2
(* Bounds of the run-level specification *)
MaxFrags == 2
MaxPages == 2
LongWords == 60

-----------------------------------------------------------------------------
(* Text measurement *)

\* glyph width of " " in Helvetica, 1/1000 em
SpaceGlyph == 278

RECURSIVE SumSeq(_)
SumSeq(s) == IF s = <<>> THEN 0 ELSE Head(s) + SumSeq(Tail(s))

\* the words written with one whitespace run between neighbours
Interleave(words) ==
    IF words = <<>> THEN <<>>
    ELSE [i \in 1..(2 * Len(words) - 1) |->
             IF i % 2 = 1 THEN words[(i + 1) \div 2] ELSE 0]

\* str.split(): the words of a title, whitespace dropped
split(title) == SelectSeq(title, LAMBDA tok : tok > 0)

RECURSIVE lstrip(_)
lstrip(title) ==
    IF title # <<>> /\ Head(title) = 0 THEN lstrip(Tail(title)) ELSE title

RECURSIVE rstrip(_)
rstrip(title) ==
    IF title # <<>> /\ title[Len(title)] = 0
    THEN rstrip(SubSeq(title, 1, Len(title) - 1))
    ELSE title

\* str.strip()
strip(title) == rstrip(lstrip(title))

\* fitz.get_text_length(line, fontsize=font_size) of a line of words joined
\* by single spaces
get_text_length(line, font_size) ==
    IF line = <<>> THEN 0
    ELSE font_size * (SumSeq(line) + SpaceGlyph * (Len(line) - 1))

-----------------------------------------------------------------------------
(* Title Wrapper, one copy per script *)

\* The loops carry st = <<lines, current_line>>.

RECURSIVE wrap_loop_TLF_Packager(_, _, _, _)
wrap_loop_TLF_Packager(words, st, font_size, max_width) ==
    IF words = <<>> THEN st
    ELSE LET lines == st[1]
             current_line == st[2]
             word == Head(words)
             test_line == Append(current_line, word)
         IN  IF get_text_length(test_line, font_size) <= max_width
             THEN wrap_loop_TLF_Packager(Tail(words), <<lines, test_line>>,
                                         font_size, max_width)
             ELSE wrap_loop_TLF_Packager(
                      Tail(words),
                      <<IF current_line # <<>>
                        THEN Append(lines, current_line) ELSE lines,
                        <<word>> >>,
                      font_size, max_width)

wrap_toc_title_TLF_Packager(title, font_size, max_width) ==
    LET r == wrap_loop_TLF_Packager(split(title), <<<<>>, <<>>>>,
                                    font_size, max_width)
        lines == IF r[2] # <<>> THEN Append(r[1], r[2]) ELSE r[1]
    IN  SelectSeq(lines, LAMBDA line : line # <<>>)

RECURSIVE wrap_loop_pack_pdfs(_, _, _, _)
wrap_loop_pack_pdfs(words, st, font_size, max_width) ==
    IF words = <<>> THEN st
    ELSE LET lines == st[1]
             current_line == st[2]
             word == Head(words)
             test_line == Append(current_line, word)
         IN  IF current_line = <<>>
             THEN wrap_loop_pack_pdfs(Tail(words), <<lines, <<word>> >>,
                                      font_size, max_width)
             ELSE IF \/ get_text_length(test_line, font_size) <= max_width
                     \/ Len(current_line) = 1
                  THEN wrap_loop_pack_pdfs(Tail(words), <<lines, test_line>>,
                                           font_size, max_width)
                  ELSE wrap_loop_pack_pdfs(
                           Tail(words),
                           <<Append(lines, current_line), <<word>> >>,
                           font_size, max_width)

wrap_toc_title_pack_pdfs(title, font_size, max_width) ==
    LET r == wrap_loop_pack_pdfs(split(title), <<<<>>, <<>>>>,
                                 font_size, max_width)
        lines == IF r[2] # <<>> THEN Append(r[1], r[2]) ELSE r[1]
    IN  SelectSeq(lines, LAMBDA line : line # <<>>)

RECURSIVE wrap_loop_pack_rtfs(_, _, _, _)
wrap_loop_pack_rtfs(words, st, font_size, max_width) ==
    IF words = <<>> THEN st
    ELSE LET lines == st[1]
             current_line == st[2]
             word == Head(words)
             test_line == Append(current_line, word)
         IN  IF current_line = <<>>
             THEN wrap_loop_pack_rtfs(Tail(words), <<lines, <<word>> >>,
                                      font_size, max_width)
             ELSE IF \/ get_text_length(test_line, font_size) <= max_width
                     \/ Len(current_line) = 1
                  THEN wrap_loop_pack_rtfs(Tail(words), <<lines, test_line>>,
                                           font_size, max_width)
                  ELSE wrap_loop_pack_rtfs(
                           Tail(words),
                           <<Append(lines, current_line), <<word>> >>,
                           font_size, max_width)

wrap_toc_title_pack_rtfs(title, font_size, max_width) ==
    LET r == wrap_loop_pack_rtfs(split(title), <<<<>>, <<>>>>,
                                 font_size, max_width)
        lines == IF r[2] # <<>> THEN Append(r[1], r[2]) ELSE r[1]
    IN  SelectSeq(lines, LAMBDA line : line # <<>>)

\* the wrapper the given script calls
wrap_toc_title(scr, title, font_size, max_width) ==
    CASE scr = "TLF_Packager" ->
             wrap_toc_title_TLF_Packager(title, font_size, max_width)
      [] scr = "pack_pdfs" ->
             wrap_toc_title_pack_pdfs(title, font_size, max_width)
      [] scr = "pack_rtfs" ->
             wrap_toc_title_pack_rtfs(title, font_size, max_width)

-----------------------------------------------------------------------------
(* TOC Paginator *)

\* horizontal measures are kept in 1/1000 pt, like text lengths
Pt(x) == 1000 * x

\* int((page_height - 100) // (font_size * 1.5)), then the reserved lines
lines_per_page_TLF_Packager(font_size, page_height) ==
    ((2 * (page_height - 100)) \div (3 * font_size)) - 2

lines_per_page_pack_pdfs(font_size, page_height, with_title) ==
    LET lines_per_page == (2 * (page_height - 100)) \div (3 * font_size)
    IN  IF with_title THEN lines_per_page - 2 ELSE lines_per_page

lines_per_page_pack_rtfs(font_size, page_height, with_title) ==
    LET lines_per_page == (2 * (page_height - 100)) \div (3 * font_size)
    IN  IF with_title THEN lines_per_page - 2 ELSE lines_per_page

lines_per_page_of(scr, font_size, page_height, with_title) ==
    CASE scr = "TLF_Packager" ->
             lines_per_page_TLF_Packager(font_size, page_height)
      [] scr = "pack_pdfs" ->
             lines_per_page_pack_pdfs(font_size, page_height,
                                      with_title)
      [] scr = "pack_rtfs" ->
             lines_per_page_pack_rtfs(font_size, page_height,
                                      with_title)

\* the test without the lines of the entry being placed
page_is_full_before_entry(current_line_count, line_count, lines_per_page) ==
    current_line_count > lines_per_page

\* if current_line_count + line_count > lines_per_page
page_is_full(current_line_count, line_count, lines_per_page) ==
    current_line_count + line_count > lines_per_page

\* the page being closed is dropped
close_page_dropped(paginated_entries, current_page_entries) ==
    paginated_entries

\* paginated_entries.append(current_page_entries)
close_page(paginated_entries, current_page_entries) ==
    Append(paginated_entries, current_page_entries)

\* the loop over toc_entries; an entry is <<level, title, target_page>>, a
\* page is a sequence of <<entry, wrapped_lines>>
RECURSIVE paginate_loop(_, _, _, _, _, _, _, _)
paginate_loop(scr, toc_entries, font_size, toc_text_max_width, lines_per_page, paginated_entries, current_page_entries, current_line_count) ==
    IF toc_entries = <<>>
    THEN IF current_page_entries # <<>>
         THEN close_page(paginated_entries, current_page_entries)
         ELSE paginated_entries
    ELSE LET entry == Head(toc_entries)
             level == entry[1]
             title == entry[2]
             indent == Pt(20 * (level - 1))
             entry_max_width == toc_text_max_width - indent
             wrapped_lines == wrap_toc_title(scr, title, font_size,
                                             entry_max_width)
             line_count == Len(wrapped_lines)
             flush == page_is_full(current_line_count, line_count,
                                   lines_per_page)
         IN  paginate_loop(
                 scr, Tail(toc_entries), font_size, toc_text_max_width,
                 lines_per_page,
                 IF flush THEN close_page(paginated_entries,
                                          current_page_entries)
                          ELSE paginated_entries,
                 Append(IF flush THEN <<>> ELSE current_page_entries,
                        <<entry, wrapped_lines>>),
                 (IF flush THEN 0 ELSE current_line_count) + line_count)

paginate_wrapped_entries(scr, toc_entries, font_size, toc_text_max_width, page_height, with_title) ==
    paginate_loop(scr, toc_entries, font_size, toc_text_max_width,
                  lines_per_page_of(scr, font_size, page_height,
                                    with_title),
                  <<>>, <<>>, 0)

-----------------------------------------------------------------------------
(* TOC Page Renderer *)

left_margin == 50
top_margin == 50
right_margin == 60
gap == 8
max_page_number == 99999
\* fitz.paper_size("a4")
a4_width == 595
a4_height == 842
\* glyph width of a digit in Helvetica, 1/1000 em
DigitGlyph == 556

RECURSIVE NumDigits(_)
\* len(str(n)) for n >= 0
NumDigits(n) == IF n < 10 THEN 1 ELSE 1 + NumDigits(n \div 10)

\* fitz.get_text_length(str(n), fontsize=font_size)
number_text_length(n, font_size) == font_size * DigitGlyph * NumDigits(n)

\* the banner is drawn on the first TOC page: always by TLF_Packager, on
\* request by the other two scripts
draws_banner(scr, with_title, page_index) ==
    CASE scr = "TLF_Packager" -> page_index = 0
      [] scr = "pack_pdfs" -> with_title /\ page_index = 0
      [] scr = "pack_rtfs" -> with_title /\ page_index = 0

\* glyph width of "." and of "Table of Contents" in Helvetica, 1/1000 em
DotGlyph == 278
BannerGlyph == 7893

\* y += font_size * 2 after the banner
banner_advance(font_size) == Pt(font_size * 2)

\* the banner drawn on a TOC page: (page_width / 2 - title_width / 2, y)
draw_banner(page_index, y, font_size) ==
    LET title_width == (font_size + 2) * BannerGlyph
    IN  [toc_page_index |-> page_index, kind |-> "banner",
         x |-> (Pt(a4_width) - title_width) \div 2, y |-> y,
         width |-> title_width]

\* the page number drawn at the reserved width of five digits
page_number_draw_x_reserved(page_number_x, page_number_width_local, font_size) ==
    page_number_x - number_text_length(max_page_number, font_size)

\* the page number is drawn at (page_number_x - page_number_width_local, y)
page_number_draw_x(page_number_x, page_number_width_local, font_size) ==
    page_number_x - page_number_width_local

\* one dot more than fit
dot_count_rounded_up(dots_width, dot_char_width) ==
    dots_width \div dot_char_width + 1

\* int(dots_width // dot_char_width)
dot_count(dots_width, dot_char_width) == dots_width \div dot_char_width

\* the rectangle of the last line only
entry_rect_last_line(x, first_line_y, page_number_x, y, font_size) ==
    <<x, y - (1500 * font_size) - Pt(font_size), page_number_x, y>>

\* fitz.Rect(x, first_line_y - font_size, page_number_x, y), as
\* <<x0, y0, x1, y1>>
entry_rect(x, first_line_y, page_number_x, y, font_size) ==
    <<x, first_line_y - Pt(font_size), page_number_x, y>>

\* the texts inserted for line i of an entry: the line, and on the last
\* line the dots, when there is room for them, and the page number
draw_line(wrapped_lines, i, x, y, font_size, page_number_x, page_number) ==
    LET line == wrapped_lines[i]
        line_width == get_text_length(line, font_size)
        page_number_width_local == number_text_length(page_number, font_size)
        dots_start_x == x + line_width + Pt(2)
        dots_end == page_number_x - page_number_width_local - Pt(gap)
        dots_width == dots_end - dots_start_x
        dot_char_width == font_size * DotGlyph
        text == [kind |-> "text", x |-> x, y |-> y, width |-> line_width,
                 content |-> line]
        dots == [kind |-> "dots", x |-> dots_start_x, y |-> y,
                 width |-> dot_count(dots_width, dot_char_width)
                               * dot_char_width,
                 content |-> dot_count(dots_width, dot_char_width)]
        number == [kind |-> "number",
                   x |-> page_number_draw_x(page_number_x,
                                            page_number_width_local,
                                            font_size),
                   y |-> y, width |-> page_number_width_local,
                   content |-> page_number]
    IN  IF i = Len(wrapped_lines)
        THEN IF dots_start_x < dots_end
             THEN <<text, dots, number>> ELSE <<text, number>>
        ELSE <<text>>

\* for i, line in enumerate(wrapped_lines): ...; y += y_spacing.  Line i
\* is drawn at y + (i - 1) * y_spacing; every line but the last inserts one
\* text.
draw_lines(wrapped_lines, x, y, font_size, page_number_x, page_number) ==
    LET n == Len(wrapped_lines)
        y_spacing == 1500 * font_size
        line_y(i) == y + (i - 1) * y_spacing
    IN  IF n = 0 THEN <<>>
        ELSE [i \in 1..(n - 1) |->
                 draw_line(wrapped_lines, i, x, line_y(i), font_size,
                           page_number_x, page_number)[1]]
             \o draw_line(wrapped_lines, n, x, line_y(n), font_size,
                          page_number_x, page_number)

\* the 0-based position printed
printed_page_number_0based(target_page, toc_page_count) ==
    target_page + toc_page_count

\* page_number_str = str(target_page + toc_page_count + 1)
printed_page_number(target_page, toc_page_count) ==
    target_page + toc_page_count + 1

\* the loop over the entries of one TOC page: per entry the texts drawn and
\* the link target.  "title" records whose wrapped lines are drawn inside
\* the rectangle.
RECURSIVE render_entries(_, _, _, _, _, _)
render_entries(page_entries, page_index, y, font_size, page_number_x, toc_page_count) ==
    IF page_entries = <<>> THEN <<>>
    ELSE LET level == Head(page_entries)[1][1]
             title == Head(page_entries)[1][2]
             target_page == Head(page_entries)[1][3]
             wrapped_lines == Head(page_entries)[2]
             indent == Pt(20 * (level - 1))
             x == Pt(left_margin) + indent
             page_number == printed_page_number(target_page,
                                                toc_page_count)
             first_line_y == y
             y_spacing == 1500 * font_size
             y_end == y + Len(wrapped_lines) * y_spacing
             rect == entry_rect(x, first_line_y, page_number_x, y_end,
                                font_size)
         IN  <<[link |-> [toc_page_index |-> page_index, rect |-> rect,
                          target_page |-> target_page, title |-> title],
                level |-> level,
                first_line_y |-> first_line_y,
                draws |-> draw_lines(wrapped_lines, x, y, font_size,
                                     page_number_x, page_number)]>>
             \o render_entries(Tail(page_entries), page_index, y_end,
                               font_size, page_number_x, toc_page_count)

\* the y of the first entry line of a TOC page
first_y(scr, with_title, page_index, font_size) ==
    Pt(top_margin) + (IF draws_banner(scr, with_title, page_index)
                      THEN banner_advance(font_size) ELSE 0)

RECURSIVE render_pages(_, _, _, _, _, _, _)
render_pages(scr, paginated_entries, page_index, font_size, page_number_x, toc_page_count, with_title) ==
    IF paginated_entries = <<>> THEN <<>>
    ELSE render_entries(Head(paginated_entries), page_index,
                        first_y(scr, with_title, page_index, font_size),
                        font_size, page_number_x, toc_page_count)
         \o render_pages(scr, Tail(paginated_entries), page_index + 1,
                         font_size, page_number_x, toc_page_count,
                         with_title)

\* a page of a document is <<file, number>>; file 0 is the TOC document.
\* "rendered" holds, per entry in drawing order, what was drawn for it.
generate_toc_pages(scr, paginated_entries, font_size, page_number_x, toc_page_count, with_title) ==
    LET rendered == render_pages(scr, paginated_entries, 0, font_size,
                                 page_number_x, toc_page_count, with_title)
    IN  [toc_doc |-> [i \in 1..Len(paginated_entries) |-> <<0, i>>],
         link_targets |-> [k \in 1..Len(rendered) |-> rendered[k].link],
         banners |-> IF paginated_entries # <<>>
                        /\ draws_banner(scr, with_title, 0)
                     THEN <<draw_banner(0, Pt(top_margin), font_size)>>
                     ELSE <<>>,
         rendered |-> rendered]

-----------------------------------------------------------------------------
(* Documents and files *)

NoDoc == [kind |-> "none"]
Previous == [kind |-> "previous"]   \* what the path held before the run
Absent == [kind |-> "absent"]
Partial == [kind |-> "partial"]     \* left by a save that raised

\* the pages of the PDF of fragment e
doc_pages(e) == [j \in 1..e.pages |-> <<e.file, j>>]

\* os.path.basename(entry['file']): one word
basename(file) == <<2000 + file>>

\* "Table 1", "Listing 2", "Figure 1" in Helvetica glyph widths
TitleTable1 == <<2501, 0, 556>>
TitleListing2 == <<2890, 0, 556>>
TitleFigure1 == <<2834, 0, 556>>
\* a title without digits, every word wider than the TOC text column
LongTitle == Interleave([i \in 1..LongWords |-> 60000])

\* parse_sort_key: the first number of the title, 9999 without one
parse_sort_key(title) ==
    CASE title = TitleTable1 -> 1
      [] title = TitleListing2 -> 2
      [] title = TitleFigure1 -> 1
      [] OTHER -> 9999

RECURSIVE insert_by_key(_, _)
insert_by_key(s, e) ==
    IF s = <<>> THEN <<e>>
    ELSE IF parse_sort_key(s[Len(s)].title) <= parse_sort_key(e.title)
         THEN Append(s, e)
         ELSE Append(insert_by_key(SubSeq(s, 1, Len(s) - 1), e), s[Len(s)])

RECURSIVE sorted_by_key(_)
\* sorted(entries, key=lambda x: parse_sort_key(x['title'])), a stable sort
sorted_by_key(s) ==
    IF s = <<>> THEN <<>>
    ELSE insert_by_key(sorted_by_key(SubSeq(s, 1, Len(s) - 1)), s[Len(s)])

-----------------------------------------------------------------------------
(* Inputs of a run *)

\* entry['type'] of the entries a script handles
Types(s) ==
    CASE s = "TLF_Packager" -> {"PDF", "RTF"}
      [] s = "pack_pdfs" -> {"PDF"}
      [] s = "pack_rtfs" -> {"RTF"}

RunTitles == {TitleTable1, LongTitle}

Fragment(i, type, title, pages) ==
    [file |-> i, type |-> type, title |-> title, pages |-> pages]

\* Scenario A: page counts 2, 5, 1
ScenarioA(s) ==
    LET type == IF s = "pack_rtfs" THEN "RTF" ELSE "PDF"
    IN  <<Fragment(1, type, TitleTable1, 2),
          Fragment(2, type, TitleListing2, 5),
          Fragment(3, type, TitleFigure1, 1)>>

FragmentLists(s) ==
    {ScenarioA(s)} \cup
    UNION {{[i \in 1..n |-> Fragment(i, f[i][1], f[i][2], f[i][3])] :
               f \in [1..n -> Types(s) \X RunTitles \X (1..MaxPages)]} :
           n \in 0..MaxFrags}

-----------------------------------------------------------------------------
(* merge_pdfs_with_bookmarks *)

\* (entry['bookmark'] or os.path.basename(entry['file'])).strip()
bookmark_title_TLF_Packager(e) ==
    strip(IF e.title = <<>> THEN basename(e.file) ELSE e.title)

\* what happens to entry e in the loop of merge: "ok", or the call that
\* raises
MergeOutcomes(s, e) ==
    IF s = "TLF_Packager" /\ e.type = "RTF"
    THEN {"ok", "convert_error", "open_error"}
    ELSE {"ok", "open_error"}

\* entry.get('converter', 'LIBREOFFICE'), read from the worksheet row
Converters == {"LIBREOFFICE", "WORD"}

\* the PDF beside an RTF is on disk: this run converted it, or it was there
\* before the run and has not been deleted
pdf_on_disk(f) ==
    \/ f \in converted
    \/ f \in DOMAIN existing /\ existing[f] = "unchanged"

\* the record of the PDFs that were in the folder before the run, after
\* the PDF beside f was found there and left alone or written over
found_existing(f, had_pdf, overwritten) ==
    IF had_pdf
    THEN (f :> (IF overwritten THEN "overwritten" ELSE "unchanged")) @@ existing
    ELSE existing

\* the record after os.remove of the PDFs beside the given files: a PDF the
\* run reused without converting it is gone
removed_existing(files) ==
    [f \in DOMAIN existing |->
        IF f \in files /\ existing[f] = "unchanged"
        THEN "deleted" ELSE existing[f]]

\* one iteration of the loop of TLF_Packager's merge.  convert_rtf_to_pdf
\* runs Word always and LibreOffice only when the PDF is not there yet;
\* the path goes on to_delete in both cases.
MergeIter_TLF_Packager(e, converter, had_pdf, outcome) ==
    LET is_rtf == e.type = "RTF"
        converts == is_rtf /\ (converter = "WORD" \/ ~had_pdf)
        \* LibreOffice: subprocess.run(check=True) raises
        convert_raises == converts /\ converter # "WORD"
                              /\ outcome = "convert_error"
        \* Word: the error is printed, and fitz.open opens the PDF that
        \* was there before, or finds none
        opens == \/ outcome = "ok"
                 \/ outcome = "convert_error" /\ converter = "WORD" /\ had_pdf
    IN  /\ outcome = "convert_error" => converts
        /\ to_delete' = IF is_rtf /\ ~convert_raises
                        THEN Append(to_delete, e.file) ELSE to_delete
        /\ converted' = IF converts /\ outcome # "convert_error"
                        THEN converted \cup {e.file} ELSE converted
        /\ existing' = found_existing(e.file, is_rtf /\ had_pdf,
                                      converts /\ outcome # "convert_error")
        /\ IF opens
           THEN /\ toc' = Append(toc, <<1, bookmark_title_TLF_Packager(e),
                                        page_count + 1>>)
                /\ merged' = merged \o doc_pages(e)
                /\ page_count' = page_count + e.pages
                /\ idx' = idx + 1
                /\ UNCHANGED <<pc, unreadable, raised_at>>
           ELSE /\ unreadable' = unreadable \cup {e.file}
                /\ pc' = "failed"
                /\ raised_at' = "merge"
                /\ UNCHANGED <<toc, merged, page_count, idx>>

\* the bookmark at the 0-based page index
bookmark_pack_0based(title, start) == <<1, title, start>>

\* [1, entry['title'], start + 1]
bookmark_pack(title, start) == <<1, title, start + 1>>

\* one iteration of the loop of pack_pdfs's and pack_rtfs's merge
MergeIter_pack(e, outcome) ==
    /\ IF outcome = "ok"
       THEN LET start == Len(merged)
            IN  /\ merged' = merged \o doc_pages(e)
                /\ toc' = Append(toc, bookmark_pack(e.title, start))
                /\ idx' = idx + 1
                /\ UNCHANGED <<pc, unreadable, raised_at>>
       ELSE /\ unreadable' = unreadable \cup {e.file}
            /\ pc' = "failed"
            /\ raised_at' = "merge"
            /\ UNCHANGED <<toc, merged, idx>>
    /\ UNCHANGED <<page_count, to_delete, converted, existing>>

MergeIter ==
    /\ pc = "merge"
    /\ idx <= Len(entries)
    /\ \E outcome \in MergeOutcomes(script, entries[idx]) :
           IF script = "TLF_Packager"
           THEN \E converter \in Converters :
                    \E had_pdf \in IF entries[idx].type = "RTF"
                                   THEN BOOLEAN ELSE {FALSE} :
                        MergeIter_TLF_Packager(entries[idx], converter,
                                               had_pdf, outcome)
           ELSE MergeIter_pack(entries[idx], outcome)
    /\ UNCHANGED <<script, include_toc_title, delete_converted, final_pdf,
                   inputs, entries, fs, base, paginated, link_targets,
                   final, warnings,
                   fnvars>>

SeqToSet(s) == {s[i] : i \in 1..Len(s)}

\* merged.set_toc(toc); merged.save(output_path); TLF_Packager then deletes
\* the PDFs it converted when asked to.  A document without pages cannot
\* be saved.
MergeSave ==
    /\ pc = "merge"
    /\ idx > Len(entries)
    /\ IF Len(merged) = 0
       THEN /\ pc' = "failed"
            /\ raised_at' = "merge_save"
            /\ UNCHANGED <<fs, converted, existing>>
       ELSE /\ fs' = [fs EXCEPT !.mid = [kind |-> "merged",
                                         pages |-> merged, toc |-> toc]]
            /\ IF script = "TLF_Packager" /\ delete_converted
                   /\ \E f \in SeqToSet(to_delete) : pdf_on_disk(f)
               THEN \* os.remove(pdf) outside any try: it deletes, or raises
                    \E raises \in BOOLEAN :
                        IF raises
                        THEN /\ pc' = "failed"
                             /\ raised_at' = "merge_delete"
                             /\ UNCHANGED <<converted, existing>>
                        ELSE /\ converted' = converted \ SeqToSet(to_delete)
                             /\ existing' =
                                    removed_existing(SeqToSet(to_delete))
                             /\ pc' = "toc"
                             /\ UNCHANGED raised_at
               ELSE /\ pc' = "toc"
                    /\ UNCHANGED <<converted, raised_at, existing>>
    /\ UNCHANGED <<script, include_toc_title, delete_converted, final_pdf,
                   inputs, entries, idx, merged, toc, page_count, to_delete,
                   unreadable, base, paginated, link_targets, final, warnings,
                   fnvars>>

-----------------------------------------------------------------------------
(* main of pack_rtfs and pack_pdfs up to the call of merge *)

\* one iteration of pack_rtfs's loop over rtf_files: a PDF that is there
\* already is taken as it is; a conversion that raises is passed over
\* with "continue"
RtfsConvert ==
    /\ script = "pack_rtfs"
    /\ pc = "convert"
    /\ idx <= Len(inputs)
    /\ \E had_pdf \in BOOLEAN, ok \in BOOLEAN :
           /\ had_pdf => ok
           /\ existing' = found_existing(inputs[idx].file, had_pdf, FALSE)
           /\ IF ok
              THEN /\ converted' = IF had_pdf THEN converted
                                   ELSE converted \cup {inputs[idx].file}
                   /\ entries' = Append(entries, inputs[idx])
                   /\ UNCHANGED unreadable
              ELSE /\ unreadable' = unreadable \cup {inputs[idx].file}
                   /\ UNCHANGED <<converted, entries>>
    /\ idx' = idx + 1
    /\ UNCHANGED <<script, include_toc_title, delete_converted, final_pdf,
                   inputs, pc, merged, toc, page_count, to_delete, fs, base,
                   paginated, link_targets, final, raised_at, warnings,
                   fnvars>>

\* entries = sorted(entries, key=...), then merge is called
MainSort ==
    /\ \/ script = "pack_pdfs" /\ pc = "sort"
       \/ script = "pack_rtfs" /\ pc = "convert" /\ idx > Len(inputs)
    /\ entries' = sorted_by_key(entries)
    /\ pc' = "merge"
    /\ idx' = 1
    /\ UNCHANGED <<script, include_toc_title, delete_converted, final_pdf,
                   inputs, merged, toc, page_count, to_delete, converted,
                   unreadable, fs, base, paginated, link_targets, final,
                   raised_at, warnings,
                   existing, fnvars>>

-----------------------------------------------------------------------------
(* add_toc_and_links *)

font_size_of_main == 8

\* every entry targeting the first body page
extract_toc_entries_first_page(doc) ==
    [i \in 1..Len(doc.toc) |-> <<doc.toc[i][1], strip(doc.toc[i][2]), 0>>]

\* doc.get_toc(simple=True) with the page made 0-based and the title stripped
extract_toc_entries(doc) ==
    [i \in 1..Len(doc.toc) |->
        <<doc.toc[i][1], strip(doc.toc[i][2]), doc.toc[i][3] - 1>>]

page_number_width(font_size) == number_text_length(max_page_number, font_size)
page_number_x == Pt(a4_width - right_margin)
toc_text_max_width(font_size) ==
    page_number_x - Pt(left_margin) - page_number_width(font_size) - Pt(gap)

\* the bookmarks left at their body page
shift_bookmark_pages_unshifted(bookmarks, offset) == bookmarks

shift_bookmark_pages(bookmarks, offset) ==
    [i \in 1..Len(bookmarks) |->
        <<bookmarks[i][1], bookmarks[i][2], bookmarks[i][3] + offset>>]

\* doc[toc_page_index].insert_link(...) for every link target
add_toc_hyperlinks(targets, toc_page_count) ==
    [i \in 1..Len(targets) |->
        [from_page |-> targets[i].toc_page_index,
         from |-> targets[i].rect,
         page |-> targets[i].target_page + toc_page_count,
         title |-> targets[i].title]]

\* base = fitz.open(bookmarked_pdf) up to toc_page_count = len(paginated)
BuildToc ==
    /\ pc = "toc"
    /\ base' = fs.mid
    /\ LET original_toc == extract_toc_entries(fs.mid)
           pages == paginate_wrapped_entries(
                        script, original_toc, font_size_of_main,
                        toc_text_max_width(font_size_of_main), a4_height,
                        include_toc_title)
       IN  /\ paginated' = pages
           /\ link_targets' =
                  generate_toc_pages(script, pages, font_size_of_main,
                                     page_number_x, Len(pages),
                                     include_toc_title).link_targets
    /\ pc' = "construct"
    /\ UNCHANGED <<script, include_toc_title, delete_converted, final_pdf,
                   inputs, entries, idx, merged, toc, page_count, to_delete,
                   converted, unreadable, fs, final, raised_at, warnings,
                   existing, fnvars>>

\* the body before the TOC pages
insert_base_then_toc(toc_pages, base_pages) == base_pages \o toc_pages

\* final.insert_pdf(toc_doc); final.insert_pdf(base)
insert_toc_then_base(toc_pages, base_pages) == toc_pages \o base_pages

\* final = fitz.open(); final.insert_pdf(toc_doc); final.insert_pdf(base)
Construct ==
    /\ pc = "construct"
    /\ final' = [kind |-> "final",
                 pages |-> insert_toc_then_base(
                               generate_toc_pages(
                                   script, paginated, font_size_of_main,
                                   page_number_x, Len(paginated),
                                   include_toc_title).toc_doc,
                               base.pages),
                 links |-> <<>>,
                 toc |-> <<>>]
    /\ pc' = "links"
    /\ UNCHANGED <<script, include_toc_title, delete_converted, final_pdf,
                   inputs, entries, idx, merged, toc, page_count, to_delete,
                   converted, unreadable, fs, base, paginated, link_targets,
                   raised_at, warnings,
                   existing, fnvars>>

AddLinks ==
    /\ pc = "links"
    /\ final' = [final EXCEPT
                    !.links = add_toc_hyperlinks(link_targets,
                                                 Len(paginated))]
    /\ pc' = "bookmarks"
    /\ UNCHANGED <<script, include_toc_title, delete_converted, final_pdf,
                   inputs, entries, idx, merged, toc, page_count, to_delete,
                   converted, unreadable, fs, base, paginated, link_targets,
                   raised_at, warnings,
                   existing, fnvars>>

\* the step passed over: the outline of the final document is not set
SetBookmarks_skipped ==
    /\ pc = "bookmarks"
    /\ pc' = "save"
    /\ UNCHANGED <<script, include_toc_title, delete_converted, final_pdf,
                   inputs, entries, idx, merged, toc, page_count, to_delete,
                   converted, unreadable, fs, base, paginated, link_targets,
                   final, raised_at, warnings, existing, fnvars>>

\* add_existing_bookmarks(final, original_bookmarks, toc_page_count)
SetBookmarks ==
    /\ pc = "bookmarks"
    /\ final' = [final EXCEPT
                    !.toc = shift_bookmark_pages(base.toc, Len(paginated))]
    /\ pc' = "save"
    /\ UNCHANGED <<script, include_toc_title, delete_converted, final_pdf,
                   inputs, entries, idx, merged, toc, page_count, to_delete,
                   converted, unreadable, fs, base, paginated, link_targets,
                   raised_at, warnings,
                   existing, fnvars>>

\* final.save(final_pdf); final.close(); base.close()
SaveFinal ==
    /\ pc = "save"
    /\ fs' = [fs EXCEPT ![final_pdf] = final]
    /\ pc' = "remove"
    /\ UNCHANGED <<script, include_toc_title, delete_converted, final_pdf,
                   inputs, entries, idx, merged, toc, page_count, to_delete,
                   converted, unreadable, base, paginated, link_targets,
                   final, raised_at, warnings,
                   existing, fnvars>>

\* the file is left where it is
remove_file_kept(files, path) == files

\* os.remove(path)
remove_file(files, path) == [files EXCEPT ![path] = Absent]

\* os.remove(bookmarked_pdf), inside try/except in all three scripts and
\* in pack_pdfs only when the file exists and the two paths differ; a
\* removal that raises prints a warning and leaves the file
RemoveIntermediate ==
    /\ pc = "remove"
    /\ IF script = "pack_pdfs" /\ (fs.mid = Absent \/ final_pdf = "mid")
       THEN UNCHANGED <<fs, warnings>>
       ELSE \E raises \in BOOLEAN :
                IF raises
                THEN /\ warnings' = warnings \cup {"intermediate"}
                     /\ UNCHANGED fs
                ELSE /\ fs' = remove_file(fs, "mid")
                     /\ UNCHANGED warnings
    /\ pc' = IF script = "pack_rtfs" THEN "cleanup" ELSE "done"
    /\ UNCHANGED <<script, include_toc_title, delete_converted, final_pdf,
                   inputs, entries, idx, merged, toc, page_count, to_delete,
                   converted, unreadable, base, paginated, link_targets,
                   final, raised_at, existing, fnvars>>

\* the end of pack_rtfs's main: the PDFs of the entries are deleted on
\* request, by os.remove(pdf_path) outside any try
MainCleanup ==
    /\ script = "pack_rtfs"
    /\ pc = "cleanup"
    /\ IF delete_converted
       THEN \E raises \in BOOLEAN :
                IF raises
                THEN /\ pc' = "failed"
                     /\ raised_at' = "cleanup"
                     /\ UNCHANGED <<converted, existing>>
                ELSE /\ converted' =
                            converted \ {entries[i].file : i \in 1..Len(entries)}
                     /\ existing' = removed_existing(
                            {entries[i].file : i \in 1..Len(entries)})
                     /\ pc' = "done"
                     /\ UNCHANGED raised_at
       ELSE /\ pc' = "done"
            /\ UNCHANGED <<converted, raised_at, existing>>
    /\ UNCHANGED <<script, include_toc_title, delete_converted, final_pdf,
                   inputs, entries, idx, merged, toc, page_count, to_delete,
                   unreadable, fs, base, paginated, link_targets, final,
                   warnings, fnvars>>

\* a call of a step of add_toc_and_links raises; a save that raises may
\* leave a partial file
AddTocSteps == {"toc", "construct", "links", "bookmarks", "save"}

Raise ==
    /\ pc \in AddTocSteps
    /\ raised_at' = pc
    /\ pc' = "failed"
    /\ \E partial \in BOOLEAN :
           fs' = IF pc = "save" /\ partial
                 THEN [fs EXCEPT ![final_pdf] = Partial] ELSE fs
    /\ UNCHANGED <<script, include_toc_title, delete_converted, final_pdf,
                   inputs, entries, idx, merged, toc, page_count, to_delete,
                   converted, unreadable, base, paginated, link_targets,
                   final, warnings,
                   existing, fnvars>>

-----------------------------------------------------------------------------
(* Spec: one run of one of the three scripts *)

NoFn ==
    /\ fn = "none"
    /\ fn_args = <<>>
    /\ fn_ret = <<>>
    /\ fn_pc = "idle"

Init ==
    /\ script \in Scripts
    /\ include_toc_title \in BOOLEAN
    /\ script = "TLF_Packager" => include_toc_title
    /\ delete_converted \in BOOLEAN
    /\ script = "pack_pdfs" => ~delete_converted
    /\ final_pdf \in {"out", "mid"}
    /\ inputs \in FragmentLists(script)
    /\ entries = IF script = "pack_rtfs" THEN <<>> ELSE inputs
    /\ pc = CASE script = "TLF_Packager" -> "merge"
              [] script = "pack_pdfs" -> "sort"
              [] script = "pack_rtfs" -> "convert"
    /\ idx = 1
    /\ merged = <<>>
    /\ toc = <<>>
    /\ page_count = 0
    /\ to_delete = <<>>
    /\ converted = {}
    /\ unreadable = {}
    /\ fs = [mid |-> Previous, out |-> Previous]
    /\ base = NoDoc
    /\ paginated = <<>>
    /\ link_targets = <<>>
    /\ final = NoDoc
    /\ raised_at = "none"
    /\ warnings = {}
    /\ existing = <<>>
    /\ NoFn

Next ==
    \/ RtfsConvert
    \/ MainSort
    \/ MergeIter
    \/ MergeSave
    \/ BuildToc
    \/ Construct
    \/ AddLinks
    \/ SetBookmarks
    \/ SaveFinal
    \/ RemoveIntermediate
    \/ MainCleanup
    \/ Raise

Spec == Init /\ [][Next]_vars

\* the run variables of a specification that applies one pure function
NoRun ==
    /\ script = "none"
    /\ include_toc_title = FALSE
    /\ delete_converted = FALSE
    /\ final_pdf = "out"
    /\ inputs = <<>>
    /\ entries = <<>>
    /\ pc = "idle"
    /\ idx = 1
    /\ merged = <<>>
    /\ toc = <<>>
    /\ page_count = 0
    /\ to_delete = <<>>
    /\ converted = {}
    /\ unreadable = {}
    /\ fs = [mid |-> Previous, out |-> Previous]
    /\ base = NoDoc
    /\ paginated = <<>>
    /\ link_targets = <<>>
    /\ final = NoDoc
    /\ raised_at = "none"
    /\ warnings = {}
    /\ existing = <<>>

-----------------------------------------------------------------------------
(* Inputs of the function-level specifications *)

WordWidths == {1000, 3000}
FontSizes == {8, 10}
WrapMaxWidths == {10000, 20000, 40000}

WordSeqs(n) == UNION {[1..k -> WordWidths] : k \in 0..n}

TitleOf(words, lead, trail) ==
    (IF lead THEN <<0>> ELSE <<>>) \o Interleave(words)
        \o (IF trail THEN <<0>> ELSE <<>>)

WrapTitles ==
    {TitleOf(ws, lead, trail) :
        ws \in WordSeqs(MaxWords), lead \in BOOLEAN, trail \in BOOLEAN}

-----------------------------------------------------------------------------
(* SpecWrap: wrap_toc_title applied to bounded inputs *)

InitWrap ==
    /\ NoRun
    /\ fn = "wrap_toc_title"
    /\ fn_args \in [script : Scripts, title : WrapTitles,
                    font_size : FontSizes, max_width : WrapMaxWidths]
    /\ fn_ret = <<>>
    /\ fn_pc = "call"

WrapCall ==
    /\ fn = "wrap_toc_title"
    /\ fn_pc = "call"
    /\ fn_ret' = wrap_toc_title(fn_args.script, fn_args.title,
                                fn_args.font_size, fn_args.max_width)
    /\ fn_pc' = "return"
    /\ UNCHANGED <<fn, fn_args, runvars>>

NextWrap == WrapCall

SpecWrap == InitWrap /\ [][NextWrap]_vars

-----------------------------------------------------------------------------
(* SpecPaginate: paginate_wrapped_entries applied to bounded inputs *)

\* titles of 0, 1, 2 and 6 words; at level 1 two words fit a line of 60 pt,
\* at level 2 (indent 20 pt) one word
PaginateTitles ==
    {<<>>} \cup
    {Interleave([i \in 1..k |-> 3000]) : k \in {1, 2, 2 * MaxWords}}

PaginateEntries ==
    UNION {[1..n -> {<<level, title, 0>> :
                        level \in {1, 2}, title \in PaginateTitles}] :
           n \in 0..MaxEntries}

\* page heights giving budgets of 0 to 4 lines at font size 8
PaginateHeights == {124, 136, 148, 160, 172}

InitPaginate ==
    /\ NoRun
    /\ fn = "paginate_wrapped_entries"
    /\ fn_args \in [script : Scripts, toc_entries : PaginateEntries,
                    font_size : {8}, toc_text_max_width : {Pt(60)},
                    page_height : PaginateHeights,
                    include_toc_title : BOOLEAN]
    /\ fn_args.script = "TLF_Packager" => fn_args.include_toc_title
    /\ lines_per_page_of(fn_args.script, fn_args.font_size,
                         fn_args.page_height,
                         fn_args.include_toc_title) >= 0
    /\ fn_ret = <<>>
    /\ fn_pc = "call"

PaginateCall ==
    /\ fn = "paginate_wrapped_entries"
    /\ fn_pc = "call"
    /\ fn_ret' = paginate_wrapped_entries(
                     fn_args.script, fn_args.toc_entries, fn_args.font_size,
                     fn_args.toc_text_max_width, fn_args.page_height,
                     fn_args.include_toc_title)
    /\ fn_pc' = "return"
    /\ UNCHANGED <<fn, fn_args, runvars>>

NextPaginate == PaginateCall

SpecPaginate == InitPaginate /\ [][NextPaginate]_vars

-----------------------------------------------------------------------------
(* SpecRender: generate_toc_pages applied to the paginator's result for     *)
(* bounded entry lists, at the geometry of add_toc_and_links                *)

\* no title; one short word; two words of 400 pt, one per line; two words
\* of 480 pt, each wider than the text column
RenderTitles == {<<>>, <<3000>>, <<50000, 0, 50000>>, <<60000, 0, 60000>>}

\* body pages whose printed numbers have 1, 5 and 6 digits
RenderTargets == {0, 9998, 99998}

RenderEntries ==
    UNION {[1..n -> {<<level, title, target_page>> :
                        level \in {1, 2}, title \in RenderTitles,
                        target_page \in RenderTargets}] :
           n \in 0..MaxRenderEntries}

\* page heights giving budgets of 3 and 6 lines at font size 8
RenderHeights == {136, 172}

InitRender ==
    /\ NoRun
    /\ fn = "generate_toc_pages"
    /\ \E scr \in Scripts, with_title \in BOOLEAN,
          toc_entries \in RenderEntries,
          font_size \in {font_size_of_main},
          page_height \in RenderHeights :
          /\ scr = "TLF_Packager" => with_title
          /\ lines_per_page_of(scr, font_size, page_height, with_title) >= 0
          /\ LET pages == paginate_wrapped_entries(
                              scr, toc_entries, font_size,
                              toc_text_max_width(font_size), page_height,
                              with_title)
             IN  fn_args = [script |-> scr,
                            include_toc_title |-> with_title,
                            font_size |-> font_size,
                            page_height |-> page_height,
                            paginated_entries |-> pages,
                            page_number_x |-> page_number_x,
                            toc_page_count |-> Len(pages)]
    /\ fn_ret = <<>>
    /\ fn_pc = "call"

RenderCall ==
    /\ fn = "generate_toc_pages"
    /\ fn_pc = "call"
    /\ fn_ret' = generate_toc_pages(
                     fn_args.script, fn_args.paginated_entries,
                     fn_args.font_size, fn_args.page_number_x,
                     fn_args.toc_page_count, fn_args.include_toc_title)
    /\ fn_pc' = "return"
    /\ UNCHANGED <<fn, fn_args, runvars>>

NextRender == RenderCall

SpecRender == InitRender /\ [][NextRender]_vars

-----------------------------------------------------------------------------
(* Properties *)

RECURSIVE PagesBefore(_, _)
\* the number of pages of the fragments es[1], ..., es[k-1]
PagesBefore(es, k) ==
    IF k <= 1 THEN 0 ELSE PagesBefore(es, k - 1) + es[k - 1].pages

\* the bookmarks b and the body pages describe the first n fragments of es:
\* one level-1 bookmark per fragment, at the cumulative page count, on the
\* first page of that fragment
BookmarksMatch(b, pages, es, n) ==
    /\ Len(b) = n
    /\ Len(pages) = PagesBefore(es, n + 1)
    /\ \A k \in 1..n :
          /\ b[k][1] = 1
          /\ b[k][3] - 1 = PagesBefore(es, k)
          /\ pages[b[k][3]] = <<es[k].file, 1>>
    /\ \A j, k \in 1..n : j <= k => b[j][3] <= b[k][3]

\* C1: merge emits one level-1 bookmark per fragment, in fragment order;
\* the 0-based page index of the k-th bookmark is the sum of the page counts
\* of the fragments before it and the body has the sum of all page counts.
\* This holds after every iteration of the loop and of the saved document.
C1_MergeBookmarks ==
    /\ pc = "merge" => BookmarksMatch(toc, merged, entries, idx - 1)
    /\ fs.mid.kind = "merged" =>
           BookmarksMatch(fs.mid.toc, fs.mid.pages, entries, Len(entries))

\* Scenario A: page counts 2, 5, 1 give bookmarks at 0, 2, 7 and 8 pages
C1_Witness ==
    /\ script = "TLF_Packager"
    /\ entries = ScenarioA("TLF_Packager")
    /\ fs.mid.kind = "merged"
    /\ [k \in 1..3 |-> fs.mid.toc[k][3] - 1] = <<0, 2, 7>>
    /\ Len(fs.mid.pages) = 8

\* the number of TOC pages at the front of a document
TocPagesOf(doc) == Cardinality({i \in 1..Len(doc.pages) : doc.pages[i][1] = 0})

\* C2: with T the number of TOC pages of the final document, every bookmark
\* of the final document is at T + its body page index and every link
\* written on a TOC page goes to T + the target page of its link target, so
\* both reach the page they pointed to in the body.
C2_Rebasing ==
    /\ pc \in {"save", "remove", "cleanup", "done"} =>
          /\ Len(final.toc) = Len(base.toc)
          /\ \A k \in 1..Len(final.toc) :
                /\ final.toc[k][3] - 1 = TocPagesOf(final) + (base.toc[k][3] - 1)
                /\ final.pages[final.toc[k][3]] = base.pages[base.toc[k][3]]
    /\ pc \in {"bookmarks", "save", "remove", "cleanup", "done"} =>
          /\ Len(final.links) = Len(link_targets)
          /\ \A k \in 1..Len(final.links) :
                /\ final.links[k].page =
                       TocPagesOf(final) + link_targets[k].target_page
                /\ final.pages[final.links[k].page + 1] =
                       base.pages[link_targets[k].target_page + 1]

\* Scenario C: two TOC pages, the link recorded with target 0 goes to page 2
C2_Witness ==
    /\ pc = "done"
    /\ TocPagesOf(final) = 2
    /\ \E k \in 1..Len(final.links) :
          link_targets[k].target_page = 0 /\ final.links[k].page = 2
    /\ \E k \in 1..Len(final.toc) :
          base.toc[k][3] = 1 /\ final.toc[k][3] = 3

\* the wrapped-line count of a TOC page
RECURSIVE PageLines(_)
PageLines(page) ==
    IF page = <<>> THEN 0 ELSE Len(Head(page)[2]) + PageLines(Tail(page))

\* C3: the final document is the T = len(paginated) TOC pages at positions
\* 0..T-1 followed by the B body pages in merged order at T..T+B-1, and T
\* is the offset of every link and bookmark.
C3_TocThenBody ==
    pc \in {"links", "bookmarks", "save", "remove", "cleanup", "done"} =>
        LET T == Len(paginated)
            B == Len(base.pages)
        IN  /\ Len(final.pages) = T + B
            /\ \A i \in 1..T : final.pages[i] = <<0, i>>
            /\ \A i \in 1..B : final.pages[T + i] = base.pages[i]
            /\ \A k \in 1..Len(final.links) :
                   final.links[k].page - link_targets[k].target_page = T
            /\ \A k \in 1..Len(final.toc) :
                   final.toc[k][3] - base.toc[k][3] = T

\* a paginator result with an overflowing page, in a finished document
C3_Witness ==
    /\ pc = "done"
    /\ \E i \in 1..Len(paginated) :
          PageLines(paginated[i]) >
              lines_per_page_of(script, font_size_of_main, a4_height,
                                include_toc_title)
    /\ Len(final.pages) = Len(paginated) + Len(base.pages)
    /\ Len(base.pages) > 1

\* C4: for every fragment k given to merge the final document holds one
\* bookmark and one TOC link with fragment k's title, k-th in order, and
\* both point to the page of the final document that is fragment k's first
\* page.
C4_EndToEnd ==
    pc \in {"save", "remove", "cleanup", "done"} =>
        /\ Len(final.toc) = Len(entries)
        /\ Len(final.links) = Len(entries)
        /\ \A k \in 1..Len(entries) :
              /\ split(final.toc[k][2]) = split(entries[k].title)
              /\ final.pages[final.toc[k][3]] = <<entries[k].file, 1>>
              /\ split(final.links[k].title) = split(entries[k].title)
              /\ final.pages[final.links[k].page + 1] = <<entries[k].file, 1>>
              /\ final.links[k].from_page < TocPagesOf(final)

\* two fragments with different titles, more than one TOC page
C4_Witness ==
    /\ pc = "done"
    /\ Len(entries) = 2
    /\ entries[1].title # entries[2].title
    /\ entries[1].pages = 2
    /\ TocPagesOf(final) > 1
    /\ fs[final_pdf].kind = "final"

\* C5: input errors are fail-fast: when a fragment of the input sequence
\* cannot be opened, read or converted, no merged body is saved and no final
\* document is written; the fragment is never skipped while the others are
\* packaged.
C5_FailFast ==
    unreadable # {} =>
        /\ fs.mid.kind # "merged"
        /\ fs.out.kind # "final"
        /\ final = NoDoc

\* C6: a failure while reading the bookmarks, paginating, rendering,
\* constructing the final document, inserting the links or rebasing the
\* bookmarks leaves the file at the output path as it was before the run.
C6_OutputUntouchedOnFailure ==
    (pc = "failed" /\ raised_at \in {"toc", "construct", "links", "bookmarks"})
        => fs[final_pdf] = Previous

\* C7: after a run that completes without error the final document is at
\* the output path, whatever the output file name, the name of the
\* intermediate merged document included.
C7_FinalPresent ==
    pc = "done" => fs[final_pdf] = final /\ final.kind = "final"

\* C8: every line returned by wrap_toc_title that holds two or more words
\* measures at most max_width, in each of the three scripts; only a line of
\* a single word may be wider.
C8_WrapWidthBound ==
    (fn = "wrap_toc_title" /\ fn_pc = "return") =>
        \A i \in 1..Len(fn_ret) :
            Len(fn_ret[i]) >= 2 =>
                get_text_length(fn_ret[i], fn_args.font_size)
                    <= fn_args.max_width

RECURSIVE FlatEntries(_)
\* the entries of the TOC pages, concatenated in page order
FlatEntries(pages) ==
    IF pages = <<>> THEN <<>>
    ELSE [i \in 1..Len(Head(pages)) |-> Head(pages)[i][1]]
             \o FlatEntries(Tail(pages))

RECURSIVE TotalLines(_)
TotalLines(pages) ==
    IF pages = <<>> THEN 0 ELSE PageLines(Head(pages)) + TotalLines(Tail(pages))

\* the wrapped lines of an entry given to the paginator
WrappedLinesOf(entry) ==
    wrap_toc_title(fn_args.script, entry[2], fn_args.font_size,
                   fn_args.toc_text_max_width - Pt(20 * (entry[1] - 1)))

RECURSIVE SumWrapped(_)
SumWrapped(es) ==
    IF es = <<>> THEN 0 ELSE Len(WrappedLinesOf(Head(es))) + SumWrapped(Tail(es))

\* C9: the entries of the returned TOC pages, concatenated in page order,
\* are the input entry sequence (same entries, same order, each once), and
\* the wrapped-line count over all pages is the sum of the entries'
\* wrapped-line counts.
C9_PurePacking ==
    (fn = "paginate_wrapped_entries" /\ fn_pc = "return") =>
        /\ FlatEntries(fn_ret) = fn_args.toc_entries
        /\ TotalLines(fn_ret) = SumWrapped(fn_args.toc_entries)

\* three entries with lines packed on more than one page, one page holding
\* two of them
C9_Witness ==
    /\ fn = "paginate_wrapped_entries" /\ fn_pc = "return"
    /\ Len(fn_args.toc_entries) = 3
    /\ Len(fn_ret) >= 2
    /\ \E i \in 1..Len(fn_ret) : Len(fn_ret[i]) = 2 /\ PageLines(fn_ret[i]) >= 2
    /\ TotalLines(fn_ret) >= 3

PaginateBudget ==
    lines_per_page_of(fn_args.script, fn_args.font_size, fn_args.page_height,
                      fn_args.include_toc_title)

\* C10: on every returned TOC page the wrapped-line counts of its entries
\* sum to at most lines_per_page, except on a page of exactly one entry
\* whose own line count exceeds lines_per_page; every entry carries all of
\* its wrapped lines on its one page.
C10_PageBudget ==
    (fn = "paginate_wrapped_entries" /\ fn_pc = "return") =>
        \A i \in 1..Len(fn_ret) :
            /\ \/ PageLines(fn_ret[i]) <= PaginateBudget
               \/ Len(fn_ret[i]) = 1 /\ Len(fn_ret[i][1][2]) > PaginateBudget
            /\ \A j \in 1..Len(fn_ret[i]) :
                   fn_ret[i][j][2] = WrappedLinesOf(fn_ret[i][j][1])

\* Scenario B: a budget of 4 lines and an entry of 6 lines alone on its
\* page, between the pages of the entries before and after it
C10_Witness ==
    /\ fn = "paginate_wrapped_entries" /\ fn_pc = "return"
    /\ PaginateBudget = 4
    /\ Len(fn_ret) = 3
    /\ Len(fn_ret[2]) = 1 /\ Len(fn_ret[2][1][2]) = 6
    /\ PageLines(fn_ret[1]) \in 1..4
    /\ PageLines(fn_ret[3]) \in 1..4

\* C14: a failure to delete an intermediate artifact (the merged-only
\* document, or a PDF converted from an RTF for this run) is reported as a
\* warning only: it never raises out of the operation and so never ends a
\* run before the final document is produced.
C14_CleanupNonFatal ==
    ~(pc = "failed" /\ raised_at \in {"merge_delete", "cleanup"})

\* C15: after every run in which the final document was saved and the
\* deletion of the intermediate document did not fail, the merged-only
\* intermediate document is no longer on disk.
C15_IntermediateScoped ==
    ((pc \in {"cleanup", "done"} \/ raised_at = "cleanup")
        /\ "intermediate" \notin warnings)
        => /\ fs.mid.kind # "merged"
           /\ final_pdf # "mid" => fs.mid = Absent

\* a finished run with the final document at the output path and the
\* intermediate path empty
C15_Witness ==
    /\ pc = "done"
    /\ warnings = {}
    /\ final_pdf = "out"
    /\ fs.out = final /\ final.kind = "final"
    /\ fs.mid = Absent

RECURSIVE FlatWords(_)
\* the words of a sequence of lines, read in order
FlatWords(lines) ==
    IF lines = <<>> THEN <<>> ELSE Head(lines) \o FlatWords(Tail(lines))

\* the line of words[p] when the lines of words are broken after the
\* positions in breaks
LineAt(words, breaks, p) ==
    LET before == {b \in breaks : b < p}
        after == {b \in breaks : b >= p}
        first == IF before = {} THEN 1
                 ELSE (CHOOSE b \in before : \A c \in before : c <= b) + 1
        last == IF after = {} THEN Len(words)
                ELSE CHOOSE b \in after : \A c \in after : b <= c
    IN  SubSeq(words, first, last)

\* the line counts of the wrappings of words in which every line of two or
\* more words measures at most max_width
BoundedWrappingSizes(words, font_size, max_width) ==
    {Cardinality(breaks) + 1 :
        breaks \in {b \in SUBSET (1..(Len(words) - 1)) :
                       \A p \in 1..Len(words) :
                           LET line == LineAt(words, b, p)
                           IN  Len(line) >= 2 =>
                                   get_text_length(line, font_size)
                                       <= max_width}}

\* C12: wrap_toc_title returns the greedy wrapping of the title's words:
\* the lines read in order are the title's words, every line holds at least
\* one word and is the longest run of the remaining words whose single-space
\* join measures at most max_width, the number of lines is the least of all
\* wrappings that respect the width bound, and an empty title gives no line.
C12_GreedyWrap ==
    (fn = "wrap_toc_title" /\ fn_pc = "return") =>
        LET words == split(fn_args.title)
            fits(line) ==
                get_text_length(line, fn_args.font_size) <= fn_args.max_width
        IN  /\ FlatWords(fn_ret) = words
            /\ \A i \in 1..Len(fn_ret) :
                  /\ fn_ret[i] # <<>>
                  /\ Len(fn_ret[i]) >= 2 => fits(fn_ret[i])
                  /\ i < Len(fn_ret) =>
                         ~fits(Append(fn_ret[i], Head(fn_ret[i + 1])))
            /\ words = <<>> => fn_ret = <<>>
            /\ words # <<>> =>
                   \A n \in BoundedWrappingSizes(words, fn_args.font_size,
                                                 fn_args.max_width) :
                       Len(fn_ret) <= n

\* C13: every TOC page returned by paginate holds at least one entry, also
\* when the first entry of the list or of a page has more wrapped lines than
\* lines_per_page.
C13_NoEmptyPage ==
    (fn = "paginate_wrapped_entries" /\ fn_pc = "return") =>
        \A i \in 1..Len(fn_ret) : fn_ret[i] # <<>>

\* floor((page_height - 100) / (font_size * 1.5))
UnreducedBudget ==
    (2 * (fn_args.page_height - 100)) \div (3 * fn_args.font_size)

\* the budget of the TOC page of index page_index: 2 lines less on a page
\* that hosts the banner
BudgetOfPage(page_index) ==
    IF draws_banner(fn_args.script, fn_args.include_toc_title, page_index)
    THEN UnreducedBudget - 2 ELSE UnreducedBudget

\* C20: lines_per_page is floor((page_height - 100) / (font_size * 1.5)),
\* less 2 on a page that hosts the banner; every page is packed against its
\* own budget: a page is closed only when the first entry of the next page
\* would not fit the budget of the page being closed.
C20_LineBudget ==
    (fn = "paginate_wrapped_entries" /\ fn_pc = "return") =>
        /\ PaginateBudget = BudgetOfPage(0)
        /\ \A i \in 1..(Len(fn_ret) - 1) :
               PageLines(fn_ret[i]) + Len(fn_ret[i + 1][1][2])
                   > BudgetOfPage(i - 1)

Rendered == fn = "generate_toc_pages" /\ fn_pc = "return"

\* the texts of one kind inserted for a rendered entry, in drawing order
DrawsOf(e, kind) == SelectSeq(e.draws, LAMBDA d : d.kind = kind)

\* C11: for every entry on every TOC page, whatever the number of digits of
\* its page number, the right edge of the drawn page number (draw x plus
\* the measured width of the number) is page_number_x = page width - 60.
C11_AlignedPageNumbers ==
    Rendered =>
        \A k \in 1..Len(fn_ret.rendered) :
            \A i \in 1..Len(DrawsOf(fn_ret.rendered[k], "number")) :
                LET d == DrawsOf(fn_ret.rendered[k], "number")[i]
                IN  /\ d.width = number_text_length(d.content,
                                                    fn_args.font_size)
                    /\ d.x + d.width = Pt(a4_width - 60)

\* page numbers of one digit and of six digits drawn by one call
C11_Witness ==
    /\ Rendered
    /\ \E j, k \in 1..Len(fn_ret.rendered) :
          /\ DrawsOf(fn_ret.rendered[j], "number") # <<>>
          /\ DrawsOf(fn_ret.rendered[k], "number") # <<>>
          /\ NumDigits(DrawsOf(fn_ret.rendered[j], "number")[1].content) = 1
          /\ NumDigits(DrawsOf(fn_ret.rendered[k], "number")[1].content) = 6

\* C16: for every rendered entry of n >= 1 wrapped lines whose first line
\* is drawn at first_line_y, the recorded rectangle spans from the entry's
\* start x, 50 + 20 * (level - 1), to page_number_x, and from
\* first_line_y - font_size to first_line_y + n * line_spacing.
C16_RectGeometry ==
    Rendered =>
        \A k \in 1..Len(fn_ret.rendered) :
            LET e == fn_ret.rendered[k]
                texts == DrawsOf(e, "text")
                n == Len(texts)
            IN  n >= 1 =>
                    /\ texts[1].x = Pt(50 + 20 * (e.level - 1))
                    /\ e.link.rect =
                           <<Pt(50 + 20 * (e.level - 1)),
                             texts[1].y - Pt(fn_args.font_size),
                             Pt(a4_width - 60),
                             texts[1].y + n * (1500 * fn_args.font_size)>>

\* an entry of level 2 with two wrapped lines, not the first of its page
C16_Witness ==
    /\ Rendered
    /\ \E k \in 2..Len(fn_ret.rendered) :
          /\ fn_ret.rendered[k].level = 2
          /\ Len(DrawsOf(fn_ret.rendered[k], "text")) = 2
          /\ fn_ret.rendered[k].link.toc_page_index
                 = fn_ret.rendered[k - 1].link.toc_page_index

Max2(a, b) == IF a >= b THEN a ELSE b
Min2(a, b) == IF a <= b THEN a ELSE b

\* the rectangles r and q share a region of positive area
RectsOverlap(r, q) ==
    /\ Max2(r[1], q[1]) < Min2(r[3], q[3])
    /\ Max2(r[2], q[2]) < Min2(r[4], q[4])

\* C17: the clickable rectangles of two distinct entries drawn on the same
\* TOC page do not intersect in a region of positive area.
C17_RectsDisjoint ==
    Rendered =>
        \A j, k \in 1..Len(fn_ret.link_targets) :
            (j # k /\ fn_ret.link_targets[j].toc_page_index
                          = fn_ret.link_targets[k].toc_page_index)
                => ~RectsOverlap(fn_ret.link_targets[j].rect,
                                 fn_ret.link_targets[k].rect)

\* C18: dots are drawn only on the last wrapped line of an entry and only
\* when slack = (page_number_x - width(page number) - 8) - (text right
\* edge + 2) is positive; their number is floor(slack / width('.')), the
\* run starts at text right edge + 2 and ends at or before
\* page_number_x - width(page number) - 8.
C18_DotLeader ==
    Rendered =>
        \A k \in 1..Len(fn_ret.rendered) :
            LET e == fn_ret.rendered[k]
                texts == DrawsOf(e, "text")
                dots == DrawsOf(e, "dots")
                numbers == DrawsOf(e, "number")
            IN  /\ Len(dots) <= 1
                /\ texts # <<>> =>
                       LET last == texts[Len(texts)]
                           column_left == Pt(a4_width - 60) - numbers[1].width
                                              - Pt(8)
                           slack == column_left - (last.x + last.width + Pt(2))
                       IN  /\ Len(numbers) = 1
                           /\ (dots # <<>>) <=> (slack > 0)
                           /\ dots # <<>> =>
                                  /\ dots[1].y = last.y
                                  /\ dots[1].x = last.x + last.width + Pt(2)
                                  /\ dots[1].content =
                                         slack \div (fn_args.font_size * DotGlyph)
                                  /\ dots[1].width =
                                         dots[1].content
                                             * (fn_args.font_size * DotGlyph)
                                  /\ dots[1].x + dots[1].width <= column_left
                /\ texts = <<>> => dots = <<>>

\* an entry of two lines with dots on its last line and an entry without
\* room for dots, drawn by one call
C18_Witness ==
    /\ Rendered
    /\ \E j, k \in 1..Len(fn_ret.rendered) :
          /\ Len(DrawsOf(fn_ret.rendered[j], "text")) = 2
          /\ DrawsOf(fn_ret.rendered[j], "dots") # <<>>
          /\ DrawsOf(fn_ret.rendered[j], "dots")[1].content > 0
          /\ DrawsOf(fn_ret.rendered[k], "text") # <<>>
          /\ DrawsOf(fn_ret.rendered[k], "dots") = <<>>

\* C19: the banner on the first TOC page takes one line-spacing
\* (font_size * 1.5): the first entry line of that page is drawn at
\* 50 + line_spacing, the first entry line of every other page at 50.
C19_BannerSpacing ==
    Rendered =>
        \A k \in 1..Len(fn_ret.rendered) :
            LET e == fn_ret.rendered[k]
                first_of_page ==
                    k = 1 \/ fn_ret.rendered[k - 1].link.toc_page_index
                                 # e.link.toc_page_index
                banner == e.link.toc_page_index = 0 /\ fn_ret.banners # <<>>
            IN  first_of_page =>
                    e.first_line_y =
                        Pt(50) + (IF banner THEN 1500 * fn_args.font_size
                                  ELSE 0)

\* C21: an entry whose title is empty or only whitespace has zero wrapped
\* lines and then has no link target, or is drawn with a non-empty
\* placeholder line: every recorded clickable rectangle belongs to an entry
\* with a visible row.
C21_NoLinkWithoutRow ==
    Rendered =>
        \A k \in 1..Len(fn_ret.rendered) :
            LET texts == DrawsOf(fn_ret.rendered[k], "text")
            IN  /\ texts # <<>>
                /\ texts[1].content # <<>>
                /\ DrawsOf(fn_ret.rendered[k], "number") # <<>>

\* C22: for every title, font size and max_width the wrap_toc_title of
\* TLF_Packager.py, pack_pdfs_with_toc.py and pack_rtfs_with_toc.py return
\* the same sequence of lines.
C22_SameEngine ==
    (fn = "wrap_toc_title" /\ fn_pc = "return") =>
        /\ fn_ret = wrap_toc_title_TLF_Packager(
                        fn_args.title, fn_args.font_size, fn_args.max_width)
        /\ fn_ret = wrap_toc_title_pack_pdfs(
                        fn_args.title, fn_args.font_size, fn_args.max_width)
        /\ fn_ret = wrap_toc_title_pack_rtfs(
                        fn_args.title, fn_args.font_size, fn_args.max_width)

\* C25: for every entry whose page number has at most 5 digits and whose
\* last wrapped line has two or more words, the right edge of the last
\* line's text plus the gap of 8 is at or left of the left edge of the drawn
\* page number, at every indent level and in each of the three scripts.
C25_TextClearOfNumber ==
    Rendered =>
        \A k \in 1..Len(fn_ret.rendered) :
            LET texts == DrawsOf(fn_ret.rendered[k], "text")
                numbers == DrawsOf(fn_ret.rendered[k], "number")
            IN  (/\ texts # <<>>
                 /\ numbers # <<>>
                 /\ NumDigits(numbers[1].content) <= 5
                 /\ Len(texts[Len(texts)].content) >= 2)
                    => texts[Len(texts)].x + texts[Len(texts)].width + Pt(8)
                           <= numbers[1].x

\* what generate_toc_pages draws for the TOC pages of the run
RunRendered ==
    generate_toc_pages(script, paginated, font_size_of_main, page_number_x,
                       Len(paginated), include_toc_title).rendered

\* C24: for every TOC entry the page number printed at the end of its row
\* is the 1-based position, in the final document, of the page its link
\* jumps to: printed number = link destination + 1 = body target page +
\* toc_page_count + 1.
C24_PrintedPageNumber ==
    pc \in {"bookmarks", "save", "remove", "cleanup", "done"} =>
        /\ Len(RunRendered) = Len(final.links)
        /\ \A k \in 1..Len(final.links) :
              \A i \in 1..Len(DrawsOf(RunRendered[k], "number")) :
                  LET printed == DrawsOf(RunRendered[k], "number")[i].content
                  IN  /\ printed = final.links[k].page + 1
                      /\ printed = link_targets[k].target_page
                                       + Len(paginated) + 1
                      /\ final.pages[printed]
                             = base.pages[link_targets[k].target_page + 1]

\* a finished run with two TOC pages: the entry of the first body page
\* prints 3 and its link goes to page index 2
C24_Witness ==
    /\ pc = "done"
    /\ Len(paginated) = 2
    /\ \E k \in 1..Len(final.links) :
          /\ link_targets[k].target_page = 0
          /\ final.links[k].page = 2
          /\ DrawsOf(RunRendered[k], "number") # <<>>
          /\ DrawsOf(RunRendered[k], "number")[1].content = 3

\* C26: in every run the final document is saved only after all TOC links
\* have been inserted and the rebased outline has been set; the
\* intermediate merged document is deleted only after the final document
\* has been saved; a run that fails before or during the save does not
\* delete the intermediate.
C26_StepOrder ==
    [][/\ (fs'[final_pdf] # fs[final_pdf] /\ fs'[final_pdf].kind = "final") =>
              /\ fs'[final_pdf] = final
              /\ Len(final.links) = Len(entries)
              /\ Len(final.toc) = Len(entries)
              /\ \A k \in 1..Len(final.toc) :
                     final.toc[k][3] = base.toc[k][3] + Len(paginated)
       /\ (fs'.mid = Absent /\ fs.mid # Absent) =>
              /\ pc = "remove"
              /\ fs[final_pdf] = final
              /\ final.kind = "final"
       /\ (pc' = "failed" /\ raised_at' \in AddTocSteps) =>
              /\ fs'.mid # Absent
              /\ final_pdf # "mid" => fs'.mid = fs.mid
      ]_vars

\* a finished run of pack_pdfs: the final document with its links and
\* outline at the output path, the intermediate deleted
C26_Witness ==
    /\ script = "pack_pdfs"
    /\ pc = "done"
    /\ fs.out = final
    /\ Len(final.links) = 2 /\ Len(final.toc) = 2
    /\ fs.mid = Absent

-----------------------------------------------------------------------------
(* SpecRerun: a run on a folder in which an earlier run left its files *)

\* the user's source documents of the folder
RerunSources(scr) == {s \in FragmentLists(scr) : Len(s) <= 1}

\* the file at the intermediate path (TLFs_bookmarked.pdf, __tmp_merge__.pdf)
\* or at the output path, numbered after the user's sources
tool_file(path) == Len(inputs) + (IF path = "mid" THEN 1 ELSE 2)

\* the paths of the folder that hold a PDF an earlier run wrote
tool_paths ==
    {path \in {"mid", final_pdf} : fs[path] # Absent}

\* the folder before the run: the output path is a path of the input
\* folder, as it always is for TLF_Packager and pack_rtfs; an earlier run
\* left its output there, or its intermediate document, or both, or none
InitRerun ==
    /\ script \in Scripts
    /\ include_toc_title \in BOOLEAN
    /\ script = "TLF_Packager" => include_toc_title
    /\ delete_converted \in BOOLEAN
    /\ script = "pack_pdfs" => ~delete_converted
    /\ final_pdf \in {"out", "mid"}
    /\ inputs \in RerunSources(script)
    /\ entries = <<>>
    /\ pc = "list"
    /\ idx = 1
    /\ merged = <<>>
    /\ toc = <<>>
    /\ page_count = 0
    /\ to_delete = <<>>
    /\ converted = {}
    /\ unreadable = {}
    /\ fs \in [{"mid", "out"} -> {Absent, Previous}]
    /\ base = NoDoc
    /\ paginated = <<>>
    /\ link_targets = <<>>
    /\ final = NoDoc
    /\ raised_at = "none"
    /\ warnings = {}
    /\ existing = <<>>
    /\ NoFn

\* os.listdir(folder): TLF_Packager and pack_pdfs take every file whose name
\* ends with .pdf, pack_rtfs every file whose name ends with .rtf; the
\* worksheet of TLF_Packager is read back with the rows it was written with
MainList ==
    /\ pc = "list"
    /\ \E title \in RunTitles, pages \in 1..MaxPages :
           LET lists_pdfs == script \in {"TLF_Packager", "pack_pdfs"}
               listed(path) ==
                   IF lists_pdfs /\ path \in tool_paths
                   THEN <<Fragment(tool_file(path), "PDF", title, pages)>>
                   ELSE <<>>
           IN  entries' = IF script = "pack_rtfs" THEN <<>>
                          ELSE inputs \o listed("mid") \o
                               (IF final_pdf = "out" THEN listed("out")
                                ELSE <<>>)
    /\ pc' = CASE script = "TLF_Packager" -> "merge"
               [] script = "pack_pdfs" -> "sort"
               [] script = "pack_rtfs" -> "convert"
    /\ UNCHANGED <<script, include_toc_title, delete_converted, final_pdf,
                   inputs, idx, merged, toc, page_count, to_delete,
                   converted, unreadable, fs, base, paginated, link_targets,
                   final, raised_at, warnings, existing, fnvars>>

NextRerun ==
    \/ MainList
    \/ RtfsConvert
    \/ MainSort
    \/ MergeIter
    \/ MergeSave
    \/ BuildToc
    \/ Construct
    \/ AddLinks
    \/ SetBookmarks
    \/ SaveFinal
    \/ RemoveIntermediate
    \/ MainCleanup
    \/ Raise

SpecRerun == InitRerun /\ [][NextRerun]_vars

\* C27: a run on a folder in which an earlier run left files merges the
\* user's source documents only: no page of the merged document comes from
\* the output or the intermediate document an earlier run wrote.
C27_OnlySourcesMerged ==
    \A k \in 1..Len(merged) :
        \E i \in 1..Len(inputs) : merged[k][1] = inputs[i].file

-----------------------------------------------------------------------------
\* C23: when TLF_Packager runs with delete_converted_pdfs, a PDF that was in
\* the folder before the run and carries the base name of an RTF (the PDF
\* the LibreOffice path reuses instead of converting) is still on disk,
\* unchanged, whatever the run does: the run deletes only PDFs it converted.
C23_ExistingPdfKept ==
    (script = "TLF_Packager" /\ delete_converted) =>
        \A f \in DOMAIN existing : existing[f] # "deleted"

=============================================================================
